---- MODULE Spec2Model ----
(***************************************************************************)
(* PM2.5 REST API (app/main.py, app/utils.py, app/models.py).              *)
(*                                                                         *)
(* A table (pandas DataFrame) is a sequence of rows; a row is a function   *)
(* from the column names "id", "Latitude", "Longitude", "PM2.5" to         *)
(* numbers.  The float64 columns hold small integers, which float64        *)
(* represents exactly; the id column is int64.                             *)
(*                                                                         *)
(* Specifications:                                                         *)
(*   Spec      the HTTP service handling one request at a time             *)
(*   SpecIds   POST and DELETE with the history of the ids handed out      *)
(*   SpecRace  two POST /data requests running in the thread pool          *)
(*   SpecFn    direct calls of the mutation functions of app/utils.py      *)
(*   SpecTop   get_top10_polluted_locations on tables of more than 10 rows *)
(***************************************************************************)
EXTENDS Integers, Sequences, FiniteSets, TLC

VARIABLES
    data_df,   \* main.py:31  the process-wide table (in SpecFn: the caller's frame object)
    resp,      \* the last request and its response (in SpecFn: the last call and its return)
    issued,    \* history: the ids POST /data has returned so far
    retired,   \* history: the ids of the records DELETE has removed so far
    req        \* SpecRace: the two POST requests in flight

vars == <<data_df, resp, issued, retired, req>>

----------------------------------------------------------------------------
(* Bounds of the model and sample values *)

MaxRows == 3        \* a table of the service holds at most this many rows
MaxId == 3          \* POST is not taken once it would assign an id above this

\* sample grid points <<Latitude, Longitude, PM2.5>>, after test_filter_data
Points == {<<10, 30, 15>>, <<20, 40, 25>>, <<10, 30, 35>>, <<20, 30, 25>>}

Lats == {10, 20}    \* the coordinates a query asks for
Lons == {30, 40}

\* the latitude bounds a region query asks for: on a grid line and beyond
\* the last, so that a row can lie on a bound, strictly inside or outside
RegionLats == {10, 25}

Columns == {"id", "Latitude", "Longitude", "PM2.5"}

None == <<>>                \* Python's None; an Optional[float] that is given is <<v>>

Row(id, lat, lon, pm) ==
    [id |-> id, Latitude |-> lat, Longitude |-> lon] @@ ("PM2.5" :> pm)

Ids(T) == {T[i].id : i \in DOMAIN T}

Max(S) == CHOOSE m \in S : \A x \in S : x <= m
Min(S) == CHOOSE m \in S : \A x \in S : m <= x

\* float(x) of a value pydantic already parsed as a float: the same float
float(x) == x

\* int64 -> float64, as pandas upcasts the id when a row of mixed dtypes
\* becomes one Series: exact for |i| <= 2^53, which covers every integer here
Int64ToFloat64(i) == i

----------------------------------------------------------------------------
(* app/utils.py *)

\* the rows that survive dropna, numbered 0..n-1 by reset_index
load_netcdf_to_dataframe(vals) ==
    [i \in 1..Len(vals) |-> Row(i - 1, vals[i][1], vals[i][2], vals[i][3])]

RowToDict(r) ==
    [id |-> Int64ToFloat64(r.id), Latitude |-> r.Latitude, Longitude |-> r.Longitude]
        @@ ("PM2.5" :> r["PM2.5"])

\* a plausible slip: the id taken for the row position (data_df.iloc[id])
get_data_entry_by_position(id, T) ==
    IF id + 1 \in DOMAIN T THEN RowToDict(T[id + 1]) ELSE None

get_data_entry_by_id(id, T) ==
    LET entry == SelectSeq(T, LAMBDA r : r.id = id)
    IN  IF entry # <<>> THEN RowToDict(entry[1]) ELSE None

\* a plausible slip: the next id taken from the row count
add_data_entry_by_count(new_entry, T) ==
    LET new_id == Len(T)
        new_row == Row(new_id, float(new_entry.Latitude), float(new_entry.Longitude),
                       float(new_entry["PM2.5"]))
    IN  [new_id |-> new_id, df |-> Append(T, new_row), arg |-> T]

\* a plausible slip: the smallest id no row holds, which fills the gaps
add_data_entry_first_free(new_entry, T) ==
    LET new_id == Min({i \in 0..Len(T) : i \notin Ids(T)})
        new_row == Row(new_id, float(new_entry.Latitude), float(new_entry.Longitude),
                       float(new_entry["PM2.5"]))
    IN  [new_id |-> new_id, df |-> Append(T, new_row), arg |-> T]

\* a plausible slip: the new row put in front (concat([new_row, data_df]))
add_data_entry_in_front(new_entry, T) ==
    LET max_id == IF T # <<>> THEN Max(Ids(T)) ELSE -1
        new_id == max_id + 1
        new_row == Row(new_id, float(new_entry.Latitude), float(new_entry.Longitude),
                       float(new_entry["PM2.5"]))
    IN  [new_id |-> new_id, df |-> <<new_row>> \o T, arg |-> T]

\* returns the new id and the new frame; arg is the frame object passed in,
\* as it is after the call
add_data_entry(new_entry, T) ==
    LET max_id == IF T # <<>> THEN Max(Ids(T)) ELSE -1
        new_id == max_id + 1
        new_row == Row(new_id, float(new_entry.Latitude), float(new_entry.Longitude),
                       float(new_entry["PM2.5"]))
    IN  [new_id |-> new_id, df |-> Append(T, new_row), arg |-> T]

\* data_df.loc[data_df['id'] == id, key] = value
SetLoc(T, id, key, value) ==
    [i \in DOMAIN T |-> IF T[i].id = id THEN [T[i] EXCEPT ![key] = value] ELSE T[i]]

\* the for loop over updated_entry.items(), in dict order; the mask
\* data_df['id'] == id is evaluated again for every key
RECURSIVE UpdateItems(_, _, _)
UpdateItems(items, id, T) ==
    IF items = <<>> THEN T
    ELSE LET key == Head(items)[1]
             value == Head(items)[2]
         IN  UpdateItems(Tail(items), id,
                         IF key \in Columns THEN SetLoc(T, id, key, value) ELSE T)

\* the frame is written in place and returned: df and arg are one object
update_data_entry(id, updated_entry, T) ==
    IF id \in Ids(T)
    THEN LET U == UpdateItems(updated_entry, id, T)
         IN  [success |-> TRUE, df |-> U, arg |-> U]
    ELSE [success |-> FALSE, df |-> T, arg |-> T]

\* a plausible slip: the row dropped by position (data_df.drop(index=id))
delete_data_entry_by_position(id, T) ==
    IF id \in Ids(T)
    THEN [success |-> TRUE,
          df |-> SubSeq(T, 1, id) \o SubSeq(T, id + 2, Len(T)),
          arg |-> T]
    ELSE [success |-> FALSE, df |-> T, arg |-> T]

\* a plausible slip: not-found hands back a fresh empty frame
delete_data_entry_not_found_empty(id, T) ==
    IF id \in Ids(T)
    THEN [success |-> TRUE, df |-> SelectSeq(T, LAMBDA r : r.id # id), arg |-> T]
    ELSE [success |-> FALSE, df |-> <<>>, arg |-> T]

delete_data_entry(id, T) ==
    IF id \in Ids(T)
    THEN [success |-> TRUE, df |-> SelectSeq(T, LAMBDA r : r.id # id), arg |-> T]
    ELSE [success |-> FALSE, df |-> T, arg |-> T]

RECURSIVE SumPm(_)
SumPm(T) == IF T = <<>> THEN 0 ELSE Head(T)["PM2.5"] + SumPm(Tail(T))

PmValues(T) == {T[i]["PM2.5"] : i \in DOMAIN T}

NaN == [nan |-> TRUE]       \* what pandas' mean/min/max give on an empty column

\* the average is kept as the exact fraction sum / count
get_statistics(T) ==
    IF T = <<>>
    THEN [count |-> 0, average_pm25 |-> NaN, min_pm25 |-> NaN, max_pm25 |-> NaN]
    ELSE [count |-> Len(T),
          average_pm25 |-> [num |-> SumPm(T), den |-> Len(T)],
          min_pm25 |-> Min(PmValues(T)),
          max_pm25 |-> Max(PmValues(T))]

\* a plausible slip: the two conditions joined by OR
filter_data_either(T, lat, lon) ==
    IF lat # None /\ lon # None
    THEN SelectSeq(T, LAMBDA r : r.Latitude = lat[1] \/ r.Longitude = lon[1])
    ELSE IF lat # None THEN SelectSeq(T, LAMBDA r : r.Latitude = lat[1])
    ELSE IF lon # None THEN SelectSeq(T, LAMBDA r : r.Longitude = lon[1])
    ELSE T

filter_data(T, lat, lon) ==
    LET byLat == IF lat # None THEN SelectSeq(T, LAMBDA r : r.Latitude = lat[1]) ELSE T
    IN  IF lon # None THEN SelectSeq(byLat, LAMBDA r : r.Longitude = lon[1]) ELSE byLat

\* a plausible slip: the bounds themselves left out (> and < for >= and <=)
get_data_in_region_exclusive(T, lat_min, lat_max, lon_min, lon_max) ==
    SelectSeq(T, LAMBDA r : /\ r.Latitude > lat_min /\ r.Latitude < lat_max
                            /\ r.Longitude > lon_min /\ r.Longitude < lon_max)

get_data_in_region(T, lat_min, lat_max, lon_min, lon_max) ==
    SelectSeq(T, LAMBDA r : /\ r.Latitude >= lat_min /\ r.Latitude <= lat_max
                            /\ r.Longitude >= lon_min /\ r.Longitude <= lon_max)

ValueError == [error |-> "ValueError"]

\* a plausible slip: the value divided by the maximum (PM2.5 / max)
normalize_pm25_by_max(T) ==
    IF T = <<>> THEN <<>>
    ELSE LET pm25_min == Min(PmValues(T))
             pm25_max == Max(PmValues(T))
         IN  IF pm25_min = pm25_max THEN ValueError
             ELSE [i \in DOMAIN T |->
                     [id |-> T[i].id, Latitude |-> T[i].Latitude,
                      Longitude |-> T[i].Longitude,
                      PM25_normalized |-> [num |-> T[i]["PM2.5"], den |-> pm25_max]]]

\* PM2.5_normalized is kept as the exact fraction (PM2.5 - min) / (max - min);
\* on an empty table min and max are NaN, NaN == NaN is false and the result
\* is the empty frame
normalize_pm25(T) ==
    IF T = <<>> THEN <<>>
    ELSE LET pm25_min == Min(PmValues(T))
             pm25_max == Max(PmValues(T))
         IN  IF pm25_min = pm25_max THEN ValueError
             ELSE [i \in DOMAIN T |->
                     [id |-> T[i].id, Latitude |-> T[i].Latitude,
                      Longitude |-> T[i].Longitude,
                      PM25_normalized |-> [num |-> T[i]["PM2.5"] - pm25_min,
                                           den |-> pm25_max - pm25_min]]]

TopN == 10

\* a plausible slip: an unstable order, the later of two equal rows in front
RECURSIVE InsertDescUnstable(_, _)
InsertDescUnstable(sorted, r) ==
    IF sorted = <<>> THEN <<r>>
    ELSE IF Head(sorted)["PM2.5"] > r["PM2.5"]
         THEN <<Head(sorted)>> \o InsertDescUnstable(Tail(sorted), r)
         ELSE <<r>> \o sorted

\* mergesort of pandas' nlargest is stable: a row goes behind the rows that
\* are at least as large
RECURSIVE InsertDesc(_, _)
InsertDesc(sorted, r) ==
    IF sorted = <<>> THEN <<r>>
    ELSE IF Head(sorted)["PM2.5"] >= r["PM2.5"]
         THEN <<Head(sorted)>> \o InsertDesc(Tail(sorted), r)
         ELSE <<r>> \o sorted

RECURSIVE SortDesc(_)
SortDesc(T) ==
    IF T = <<>> THEN <<>>
    ELSE InsertDesc(SortDesc(SubSeq(T, 1, Len(T) - 1)), T[Len(T)])

\* DataFrame.nlargest(n, 'PM2.5'), keep='first'
nlargest(n, T) ==
    LET s == SortDesc(T)
    IN  SubSeq(s, 1, IF n < Len(s) THEN n ELSE Len(s))

get_top10_polluted_locations(T) == nlargest(TopN, T)

----------------------------------------------------------------------------
(* app/models.py and app/main.py: the service, one request at a time *)

\* the bodies pydantic accepts as a DataEntry
DataEntry == {[Latitude |-> p[1], Longitude |-> p[2], PM2_5 |-> p[3]] : p \in Points}

\* new_entry.dict() with the key 'PM2_5' popped and stored again as 'PM2.5'
EntryDict(e) ==
    [Latitude |-> e.Latitude, Longitude |-> e.Longitude] @@ ("PM2.5" :> e.PM2_5)

\* the same dict as the sequence of its items, in insertion order
EntryItems(e) ==
    << <<"Latitude", e.Latitude>>, <<"Longitude", e.Longitude>>, <<"PM2.5", e.PM2_5>> >>

\* the ids a client asks for: those the model can hold, and the -1 of the tests
ReqIds == -1..MaxId

\* the sequences of at most n elements of S
SeqsUpTo(S, n) == UNION {[1..k -> S] : k \in 0..n}

NoResp == [method |-> "NONE", path |-> "", status |-> 0, args |-> <<>>,
           body |-> <<>>, before |-> <<>>]

Response(method, path, status, args, body) ==
    [method |-> method, path |-> path, status |-> status, args |-> args,
     body |-> body, before |-> data_df]

NoReq == <<>>

\* a slip that would hide the race: the row appended to whatever is current
StoreGlobalAppending(current, updated) ==
    Append(current, updated[Len(updated)])

\* new_id, data_df = ...: the global name is bound to the frame that came back
StoreGlobal(current, updated) == updated

\* startup_event: the table the loader builds from the rows of the file
Init ==
    /\ \E vals \in SeqsUpTo(Points, MaxRows) :
           data_df = load_netcdf_to_dataframe(vals)
    /\ resp = NoResp
    /\ issued = {}
    /\ retired = {}
    /\ req = NoReq

get_all_data ==
    /\ resp' = Response("GET", "/data", 200, <<>>, data_df)
    /\ UNCHANGED <<data_df, issued, retired, req>>

\* the handler itself; the history of ids is kept by the specification
add_data_body ==
    /\ Len(data_df) < MaxRows
    /\ \E new_entry \in DataEntry :
         LET r == add_data_entry(EntryDict(new_entry), data_df)
         IN  /\ r.new_id <= MaxId
             /\ data_df' = StoreGlobal(data_df, r.df)
             /\ resp' = Response("POST", "/data", 200, new_entry,
                                 [message |-> "Data added successfully", id |-> r.new_id])

add_data ==
    /\ add_data_body
    /\ UNCHANGED <<issued, retired, req>>

\* a body that is no DataEntry, or a path id that is no integer, is answered
\* by the framework before the handler runs
validation_error ==
    /\ \E mp \in {<<"POST", "/data">>, <<"PUT", "/data/{id}">>,
                  <<"GET", "/data/{id}">>, <<"DELETE", "/data/{id}">>,
                  <<"GET", "/data/region">>} :
         resp' = Response(mp[1], mp[2], 422, <<>>, [detail |-> "validation error"])
    /\ UNCHANGED <<data_df, issued, retired, req>>

\* the JSON encoder refuses the NaN statistics of an empty table
statistics ==
    /\ LET stats == get_statistics(data_df)
       IN  resp' = Response("GET", "/data/stats",
                            IF data_df = <<>> THEN 500 ELSE 200, <<>>, stats)
    /\ UNCHANGED <<data_df, issued, retired, req>>

filter_data_endpoint ==
    /\ \E lat \in {None} \cup {<<v>> : v \in Lats}, lon \in {None} \cup {<<v>> : v \in Lons} :
         LET args == [lat |-> lat, lon |-> lon]
             filtered == filter_data(data_df, lat, lon)
         IN  resp' = IF lat = None /\ lon = None
                     THEN Response("GET", "/data/filter", 400, args,
                            [detail |-> "At least one of 'lat' or 'lon' must be provided"])
                     ELSE IF filtered = <<>>
                     THEN Response("GET", "/data/filter", 404, args,
                            [detail |-> "No data found for the provided filters"])
                     ELSE Response("GET", "/data/filter", 200, args, filtered)
    /\ UNCHANGED <<data_df, issued, retired, req>>

data_in_region ==
    /\ \E lat_min \in RegionLats, lat_max \in RegionLats, lon_min \in Lons, lon_max \in Lons :
         LET args == [lat_min |-> lat_min, lat_max |-> lat_max,
                      lon_min |-> lon_min, lon_max |-> lon_max]
             region_data == get_data_in_region(data_df, lat_min, lat_max, lon_min, lon_max)
         IN  resp' = IF region_data = <<>>
                     THEN Response("GET", "/data/region", 404, args,
                            [detail |-> "No data found within the specified region"])
                     ELSE Response("GET", "/data/region", 200, args, region_data)
    /\ UNCHANGED <<data_df, issued, retired, req>>

get_normalized_pm25_endpoint ==
    /\ LET normalized_df == normalize_pm25(data_df)
       IN  resp' = IF normalized_df = ValueError
                   THEN Response("GET", "/data/normalized", 400, <<>>,
                          [detail |-> "Cannot normalize PM2.5 levels: min and max values are equal"])
                   ELSE Response("GET", "/data/normalized", 200, <<>>, normalized_df)
    /\ UNCHANGED <<data_df, issued, retired, req>>

get_top10_polluted ==
    /\ LET top10 == get_top10_polluted_locations(data_df)
       IN  resp' = IF top10 = <<>>
                   THEN Response("GET", "/data/top10", 404, <<>>,
                          [detail |-> "No data available to determine top polluted locations"])
                   ELSE Response("GET", "/data/top10", 200, <<>>, top10)
    /\ UNCHANGED <<data_df, issued, retired, req>>

get_data_by_id_endpoint ==
    /\ \E id \in ReqIds :
         LET data_entry == get_data_entry_by_id(id, data_df)
         IN  resp' = IF data_entry # None
                     THEN Response("GET", "/data/{id}", 200, [id |-> id], data_entry)
                     ELSE Response("GET", "/data/{id}", 404, [id |-> id],
                            [detail |-> "Data entry not found"])
    /\ UNCHANGED <<data_df, issued, retired, req>>

\* the global is assigned whatever delete_data_entry returned, found or not
delete_data_body ==
    /\ \E id \in ReqIds :
         LET r == delete_data_entry(id, data_df)
         IN  /\ data_df' = StoreGlobal(data_df, r.df)
             /\ resp' = IF r.success
                        THEN Response("DELETE", "/data/{id}", 200, [id |-> id],
                               [message |-> "Data deleted successfully"])
                        ELSE Response("DELETE", "/data/{id}", 404, [id |-> id],
                               [detail |-> "Data entry not found"])

delete_data ==
    /\ delete_data_body
    /\ UNCHANGED <<issued, retired, req>>

update_data ==
    /\ \E id \in ReqIds, updated_entry \in DataEntry :
         LET r == update_data_entry(id, EntryItems(updated_entry), data_df)
         IN  /\ data_df' = StoreGlobal(data_df, r.df)
             /\ resp' = IF r.success
                        THEN Response("PUT", "/data/{id}", 200,
                               [id |-> id, entry |-> updated_entry],
                               [message |-> "Data updated successfully"])
                        ELSE Response("PUT", "/data/{id}", 404,
                               [id |-> id, entry |-> updated_entry],
                               [detail |-> "Data entry not found"])
    /\ UNCHANGED <<issued, retired, req>>

Next ==
    \/ get_all_data
    \/ add_data
    \/ validation_error
    \/ statistics
    \/ filter_data_endpoint
    \/ data_in_region
    \/ get_normalized_pm25_endpoint
    \/ get_top10_polluted
    \/ get_data_by_id_endpoint
    \/ delete_data
    \/ update_data

Spec == Init /\ [][Next]_vars

\* the service with the history of the ids POST returned and DELETE removed
add_data_tracked ==
    /\ add_data_body
    /\ issued' = issued \cup {resp'.body.id}
    /\ UNCHANGED <<retired, req>>

delete_data_tracked ==
    /\ delete_data_body
    /\ retired' = IF resp'.status = 200 THEN retired \cup {resp'.args.id} ELSE retired
    /\ UNCHANGED <<issued, req>>

NextIds == add_data_tracked \/ delete_data_tracked

SpecIds == Init /\ [][NextIds]_vars

----------------------------------------------------------------------------
(* app/main.py add_data, run by two threads of the pool without a lock *)

Procs == {1, 2}

RaceInit ==
    /\ \E vals \in SeqsUpTo(Points, MaxRows) :
           data_df = load_netcdf_to_dataframe(vals)
    /\ resp = NoResp
    /\ issued = {}
    /\ retired = {}
    /\ req = [p \in Procs |-> [pc |-> "start"]]

\* add_data_entry(new_entry_dict, data_df): the global is read and the new
\* frame is built, nothing is stored yet
add_data_call(p) ==
    /\ req[p].pc = "start"
    /\ \E new_entry \in DataEntry :
         LET r == add_data_entry(EntryDict(new_entry), data_df)
         IN  req' = [req EXCEPT ![p] = [pc |-> "called", new_entry |-> new_entry,
                                        seen |-> data_df, new_id |-> r.new_id,
                                        df |-> r.df]]
    /\ UNCHANGED <<data_df, resp, issued, retired>>

\* the assignment to the global and the response
add_data_store(p) ==
    /\ req[p].pc = "called"
    /\ data_df' = StoreGlobal(data_df, req[p].df)
    /\ resp' = Response("POST", "/data", 200, req[p].new_entry,
                        [message |-> "Data added successfully", id |-> req[p].new_id])
    /\ req' = [req EXCEPT ![p].pc = "done"]
    /\ UNCHANGED <<issued, retired>>

NextRace == \E p \in Procs : add_data_call(p) \/ add_data_store(p)

SpecRace == RaceInit /\ [][NextRace]_vars

----------------------------------------------------------------------------
(* app/utils.py called directly, as tests/test_api.py does: one call on a *)
(* frame the caller holds                                                  *)

MaxKeys == 2        \* an update mapping has at most this many keys

\* the items an update mapping is made of: new values for the columns (those
\* of test_update_data_entry) and a name that is no column
UpdateItemsPool ==
    {<<"id", i>> : i \in 0..MaxId}
        \cup {<<"Latitude", 12>>, <<"Longitude", 22>>, <<"PM2.5", 18>>, <<"Altitude", 5>>}

\* dicts as the sequences of their items: no key twice
Mappings ==
    {m \in SeqsUpTo(UpdateItemsPool, MaxKeys) :
        \A i, j \in DOMAIN m : i # j => m[i][1] # m[j][1]}

NoCall == [fn |-> "none"]

FnInit ==
    /\ \E vals \in SeqsUpTo(Points, MaxRows) :
           data_df = load_netcdf_to_dataframe(vals)
    /\ resp = NoCall
    /\ issued = {}
    /\ retired = {}
    /\ req = NoReq

\* snapshot: the rows of the frame before the call; given: the rows of that
\* same frame object after the call; the caller goes on with the frame returned
call_add_data_entry ==
    /\ resp = NoCall
    /\ \E new_entry \in DataEntry :
         LET r == add_data_entry(EntryDict(new_entry), data_df)
         IN  /\ resp' = [fn |-> "add_data_entry", entry |-> new_entry,
                         snapshot |-> data_df, given |-> r.arg,
                         success |-> TRUE, new_id |-> r.new_id]
             /\ data_df' = r.df
    /\ UNCHANGED <<issued, retired, req>>

call_update_data_entry ==
    /\ resp = NoCall
    /\ \E id \in ReqIds, updated_entry \in Mappings :
         LET r == update_data_entry(id, updated_entry, data_df)
         IN  /\ resp' = [fn |-> "update_data_entry", id |-> id, entry |-> updated_entry,
                         snapshot |-> data_df, given |-> r.arg,
                         success |-> r.success]
             /\ data_df' = r.df
    /\ UNCHANGED <<issued, retired, req>>

call_delete_data_entry ==
    /\ resp = NoCall
    /\ \E id \in ReqIds :
         LET r == delete_data_entry(id, data_df)
         IN  /\ resp' = [fn |-> "delete_data_entry", id |-> id,
                         snapshot |-> data_df, given |-> r.arg,
                         success |-> r.success]
             /\ data_df' = r.df
    /\ UNCHANGED <<issued, retired, req>>

NextFn == call_add_data_entry \/ call_update_data_entry \/ call_delete_data_entry

SpecFn == FnInit /\ [][NextFn]_vars

----------------------------------------------------------------------------
(* get_top10_polluted_locations on frames built as                        *)
(* test_get_top10_polluted_locations builds them, of more than ten rows   *)

MaxTopRows == 11    \* the frames have at most this many rows

TopPoints == {<<10, 30, 15>>, <<20, 40, 25>>}

TopInit ==
    /\ \E vals \in SeqsUpTo(TopPoints, MaxTopRows) :
           data_df = load_netcdf_to_dataframe(vals)
    /\ resp = NoCall
    /\ issued = {}
    /\ retired = {}
    /\ req = NoReq

call_get_top10_polluted_locations ==
    /\ resp = NoCall
    /\ resp' = [fn |-> "get_top10_polluted_locations",
                ret |-> get_top10_polluted_locations(data_df)]
    /\ UNCHANGED <<data_df, issued, retired, req>>

NextTop == call_get_top10_polluted_locations

SpecTop == TopInit /\ [][NextTop]_vars

----------------------------------------------------------------------------
(* Properties of the service *)

IsPost == resp.method = "POST" /\ resp.status = 200
IsDelete(status) == resp.method = "DELETE" /\ resp.status = status
IsGetById == resp.method = "GET" /\ resp.path = "/data/{id}" /\ resp.status # 422

\* T without its k-th row
Without(T, k) == SubSeq(T, 1, k - 1) \o SubSeq(T, k + 1, Len(T))

\* C1: from the table built at startup (ids 0..n-1, possibly empty), after any
\* sequence of POST, PUT and DELETE requests handled one at a time, no two
\* rows of the process-wide table have the same id.
C1_UniqueIds ==
    \A i, j \in DOMAIN data_df : i # j => data_df[i].id # data_df[j].id

\* a POST after a DELETE: the new id is not the row count
C1_Witness ==
    /\ IsPost
    /\ Len(resp.before) >= 1
    /\ resp.body.id # Len(resp.before)
    /\ C1_UniqueIds

\* C2 as stated: POST never returns an id that an earlier POST returned or
\* that a row removed by DELETE once had.
C2_NeverReused ==
    [][(resp'.method = "POST" /\ data_df' # data_df)
          => resp'.body.id \notin (issued \cup retired)]_vars

\* C2 as amended: POST returns an id above every id in the table at that
\* moment (so never the id of a row that is present); the id of a removed
\* row comes back once no row with that id or a larger one is left.
C2_AboveEveryPresentId ==
    IsPost => \A i \in Ids(resp.before) : resp.body.id > i

\* the id of a removed row is returned again while other rows are present
C2_Witness ==
    /\ IsPost
    /\ resp.body.id \in retired
    /\ resp.before # <<>>

\* C5: POST on a table T returns max(ids of T) + 1, or 0 when T is empty, and
\* the new table is T with one row appended that carries that id and the
\* given Latitude, Longitude and measurement: one row more, every row of T
\* kept in place, and get_data_entry_by_id of the new id gives the added row.
C5_AddAppends ==
    IsPost =>
        LET T == resp.before
            e == resp.args
            new_id == resp.body.id
            got == get_data_entry_by_id(new_id, data_df)
        IN  /\ (T = <<>> => new_id = 0)
            /\ (T # <<>> => /\ new_id - 1 \in Ids(T)
                            /\ \A i \in Ids(T) : i < new_id)
            /\ Len(data_df) = Len(T) + 1
            /\ \A k \in DOMAIN T : data_df[k] = T[k]
            /\ data_df[Len(data_df)] = Row(new_id, e.Latitude, e.Longitude, e.PM2_5)
            /\ got # None
            /\ got.id = new_id
            /\ got.Latitude = e.Latitude
            /\ got.Longitude = e.Longitude
            /\ got["PM2.5"] = e.PM2_5

\* a row added to a table of two rows whose ids are not 0, 1
C5_Witness ==
    /\ IsPost
    /\ Len(resp.before) = 2
    /\ resp.body.id = 3
    /\ Len(data_df) = 3

\* C6: DELETE of an id present in T succeeds and the new table is T without
\* exactly the row of that id: one row fewer, the other rows unchanged and in
\* their order, and get_data_entry_by_id of the id gives None.
C6_DeleteRemovesOne ==
    /\ (resp.method = "DELETE" /\ resp.status # 422 /\ resp.args.id \in Ids(resp.before))
          => resp.status = 200
    /\ IsDelete(200) =>
          LET T == resp.before
              id == resp.args.id
          IN  /\ Len(data_df) = Len(T) - 1
              /\ \E k \in DOMAIN T : T[k].id = id /\ data_df = Without(T, k)
              /\ get_data_entry_by_id(id, data_df) = None

\* the middle row of three is deleted, and it is not the row at position id
C6_Witness ==
    /\ IsDelete(200)
    /\ Len(resp.before) = 3
    /\ resp.before[2].id = resp.args.id
    /\ resp.args.id # 1
    /\ Len(data_df) = 2

\* C8: the process-wide table changes only in a POST, PUT or DELETE answered
\* with 200: every GET and every request answered with 400, 404 or 422
\* leaves it as it was before the request.
C8_OnlySuccessfulMutationsChange ==
    (resp.method = "GET" \/ resp.status \in {400, 404, 422})
        => data_df = resp.before

\* a DELETE of an absent id on a table that holds rows
C8_Witness ==
    /\ IsDelete(404)
    /\ resp.before # <<>>
    /\ data_df = resp.before

\* C9: get_data_entry_by_id(i) gives a record iff i is an id of the table,
\* and the record has the stored id, Latitude, Longitude and measurement;
\* GET /data/{id} answers 200 with it when i is present and 404 when absent.
C9_GetById ==
    /\ \A i \in ReqIds :
          LET e == get_data_entry_by_id(i, data_df)
          IN  /\ (e # None) <=> (i \in Ids(data_df))
              /\ e # None =>
                    \E k \in DOMAIN data_df :
                        /\ data_df[k].id = i
                        /\ e.id = i
                        /\ e.Latitude = data_df[k].Latitude
                        /\ e.Longitude = data_df[k].Longitude
                        /\ e["PM2.5"] = data_df[k]["PM2.5"]
    /\ IsGetById =>
          /\ (resp.args.id \in Ids(data_df)) => /\ resp.status = 200
                                                /\ resp.body = get_data_entry_by_id(resp.args.id, data_df)
          /\ (resp.args.id \notin Ids(data_df)) => resp.status = 404

\* a row found whose id is not its position, and an absent id in range
C9_Witness ==
    /\ IsGetById
    /\ resp.status = 200
    /\ Len(data_df) = 2
    /\ resp.args.id = 3
    /\ resp.body.id = 3
    /\ 1 \notin Ids(data_df)

\* the row a request asked to add
AskedRow(p) ==
    Row(req[p].new_id, req[p].new_entry.Latitude, req[p].new_entry.Longitude,
        req[p].new_entry.PM2_5)

BothDone == \A p \in Procs : req[p].pc = "done"

\* C3: when two POST requests both read the process-wide table before either
\* replaces it, both return the same id and the final table is the table
\* they read plus the row of one of them only: the other insert is lost.
C3_LostInsert ==
    (BothDone /\ req[1].seen = req[2].seen) =>
        /\ req[1].new_id = req[2].new_id
        /\ Len(data_df) = Len(req[1].seen) + 1
        /\ \E p \in Procs : data_df = Append(req[1].seen, AskedRow(p))

\* the interleaving exists: two different rows asked, one id, one row kept
C3_Witness ==
    /\ BothDone
    /\ req[1].seen = req[2].seen
    /\ req[1].new_entry # req[2].new_entry
    /\ req[1].new_id = req[2].new_id
    /\ data_df = Append(req[1].seen, AskedRow(2))
    /\ \A k \in DOMAIN data_df : data_df[k] # AskedRow(1)

\* C4 as stated: add, update and delete return a new table and leave the
\* frame they were given unchanged: after a successful call the frame passed
\* in holds the rows it held before.
C4_ArgumentUnchanged ==
    (resp.fn \in {"add_data_entry", "update_data_entry", "delete_data_entry"}
        /\ resp.success) => resp.given = resp.snapshot

\* the value the mapping m supplies for key c, if any
Supplied(m, c) == {m[i][2] : i \in {j \in DOMAIN m : m[j][1] = c}}

\* C7 as stated: update(id, fields) of an id present returns success and a
\* table in which the row of that id has exactly the supplied columns
\* overwritten with the supplied values, names that are no columns are
\* ignored, the columns not supplied keep their values, and every other row
\* is unchanged.
C7_PartialUpdate ==
    (resp.fn = "update_data_entry" /\ resp.id \in Ids(resp.snapshot)) =>
        /\ resp.success
        /\ Len(data_df) = Len(resp.snapshot)
        /\ \A k \in DOMAIN resp.snapshot :
              IF resp.snapshot[k].id = resp.id
              THEN \A c \in Columns :
                      IF Supplied(resp.entry, c) # {}
                      THEN data_df[k][c] \in Supplied(resp.entry, c)
                      ELSE data_df[k][c] = resp.snapshot[k][c]
              ELSE data_df[k] = resp.snapshot[k]

\* the position of the row of id i in T
Pos(T, i) == CHOOSE k \in DOMAIN T : T[k].id = i

\* C10: the top-10 query returns min(10, length of T) rows of T, those with
\* the largest measurement, in descending order of measurement, rows of
\* equal measurement in their order in T; a table of fewer than 10 rows
\* yields all its rows.
C10_Top10 ==
    resp.fn = "get_top10_polluted_locations" =>
        LET T == data_df
            R == resp.ret
            chosen == Ids(R)
        IN  /\ Len(R) = (IF Len(T) < 10 THEN Len(T) ELSE 10)
            /\ \A i \in DOMAIN R : \E k \in DOMAIN T : T[k] = R[i]
            /\ \A i, j \in DOMAIN R : i # j => R[i].id # R[j].id
            /\ \A i, j \in DOMAIN R : i < j =>
                  /\ R[i]["PM2.5"] >= R[j]["PM2.5"]
                  /\ R[i]["PM2.5"] = R[j]["PM2.5"] => Pos(T, R[i].id) < Pos(T, R[j].id)
            /\ \A k \in DOMAIN T : T[k].id \notin chosen =>
                  \A i \in DOMAIN R :
                      /\ T[k]["PM2.5"] <= R[i]["PM2.5"]
                      /\ T[k]["PM2.5"] = R[i]["PM2.5"] => Pos(T, R[i].id) < k

\* eleven rows, ten returned, reordered, with equal measurements among them
\* and the row left out not the last of the table
C10_Witness ==
    /\ resp.fn = "get_top10_polluted_locations"
    /\ Len(data_df) = 11
    /\ Len(resp.ret) = 10
    /\ resp.ret[1].id # 0
    /\ resp.ret[1]["PM2.5"] = 25
    /\ resp.ret[2]["PM2.5"] = 25
    /\ resp.ret[10]["PM2.5"] = 15
    /\ data_df[11]["PM2.5"] = 25

IsNormalized == resp.method = "GET" /\ resp.path = "/data/normalized"

AllPmEqual(T) == \A i, j \in DOMAIN T : T[i]["PM2.5"] = T[j]["PM2.5"]

\* one row per record, the smallest measurement at exactly 0, the largest at
\* exactly 1, every value in [0,1] (num / den with den > 0)
NormalizedRows(T, body) ==
    /\ Len(body) = Len(T)
    /\ \A k \in DOMAIN T :
          LET f == body[k].PM25_normalized
          IN  /\ body[k].id = T[k].id
              /\ body[k].Latitude = T[k].Latitude
              /\ body[k].Longitude = T[k].Longitude
              /\ f.den > 0
              /\ 0 <= f.num /\ f.num <= f.den
              /\ (\A j \in DOMAIN T : T[k]["PM2.5"] <= T[j]["PM2.5"]) => f.num = 0
              /\ (\A j \in DOMAIN T : T[k]["PM2.5"] >= T[j]["PM2.5"]) => f.num = f.den

\* C11 as stated: a table whose measurements are not all equal is normalized
\* row by row (minimum to 0, maximum to 1, the others in [0,1]); a table
\* whose measurements are all equal fails with the degenerate-range error,
\* which GET /data/normalized answers with 400.
C11_Normalize ==
    IsNormalized =>
        IF AllPmEqual(data_df)
        THEN resp.status = 400
        ELSE resp.status = 200 /\ NormalizedRows(data_df, resp.body)

\* C11 as amended: as stated for every table that holds at least one row; on
\* the empty table normalize raises nothing and returns the empty result,
\* which GET /data/normalized answers with 200 and an empty list.
C11_NormalizeNonEmpty ==
    IsNormalized =>
        IF data_df = <<>>
        THEN resp.status = 200 /\ resp.body = <<>>
        ELSE IF AllPmEqual(data_df)
        THEN resp.status = 400
        ELSE resp.status = 200 /\ NormalizedRows(data_df, resp.body)

\* three rows with three measurements: 0, a value strictly between, and 1
C11_Witness ==
    /\ IsNormalized
    /\ resp.status = 200
    /\ Len(data_df) = 3
    /\ data_df[1]["PM2.5"] = 25
    /\ resp.body[1].PM25_normalized = [num |-> 10, den |-> 20]
    /\ \E k \in DOMAIN resp.body : resp.body[k].PM25_normalized.num = 0
    /\ \E k \in DOMAIN resp.body : resp.body[k].PM25_normalized.num = 20

IsFilter == resp.method = "GET" /\ resp.path = "/data/filter"

\* a row passes when its Latitude is lat, if lat is given, and its Longitude
\* is lon, if lon is given
Passes(r, lat, lon) ==
    /\ lat # None => r.Latitude = lat[1]
    /\ lon # None => r.Longitude = lon[1]

\* R holds exactly the rows of T that satisfy keep, in the order of T
\* (the ids of T are distinct)
ExactlyInOrder(T, R, keep(_)) ==
    /\ \A i \in DOMAIN R : \E k \in DOMAIN T : T[k] = R[i] /\ keep(T[k])
    /\ \A k \in DOMAIN T : keep(T[k]) => \E i \in DOMAIN R : R[i] = T[k]
    /\ \A i, j \in DOMAIN R : i < j => Pos(T, R[i].id) < Pos(T, R[j].id)

\* C12: filter(lat, lon) returns exactly the rows of T, in table order, whose
\* Latitude equals lat when lat is given and whose Longitude equals lon when
\* lon is given (both given: both must hold); GET /data/filter answers 400
\* when neither is given, 404 when the result is empty, 200 with it otherwise.
C12_Filter ==
    /\ \A lat \in {None} \cup {<<v>> : v \in Lats}, lon \in {None} \cup {<<v>> : v \in Lons} :
          ExactlyInOrder(data_df, filter_data(data_df, lat, lon),
                         LAMBDA r : Passes(r, lat, lon))
    /\ IsFilter =>
          LET lat == resp.args.lat
              lon == resp.args.lon
              some == \E k \in DOMAIN data_df : Passes(data_df[k], lat, lon)
          IN  IF lat = None /\ lon = None THEN resp.status = 400
              ELSE IF ~some THEN resp.status = 404
              ELSE /\ resp.status = 200
                   /\ ExactlyInOrder(data_df, resp.body, LAMBDA r : Passes(r, lat, lon))

\* both given, and a row with the Latitude asked but another Longitude is
\* left out while a later row is returned
C12_Witness ==
    /\ IsFilter
    /\ resp.status = 200
    /\ resp.args.lat # None
    /\ resp.args.lon # None
    /\ Len(data_df) = 3
    /\ Len(resp.body) = 1
    /\ resp.body[1] = data_df[3]
    /\ \E k \in DOMAIN data_df : /\ data_df[k].Latitude = resp.args.lat[1]
                                 /\ data_df[k].Longitude # resp.args.lon[1]

IsRegion == resp.method = "GET" /\ resp.path = "/data/region" /\ resp.status # 422

InBox(r, a) ==
    /\ a.lat_min <= r.Latitude /\ r.Latitude <= a.lat_max
    /\ a.lon_min <= r.Longitude /\ r.Longitude <= a.lon_max

\* C13: get_data_in_region returns exactly the rows of T with
\* lat_min <= Latitude <= lat_max and lon_min <= Longitude <= lon_max, the
\* bounds included; inverted or disjoint bounds give an empty result and no
\* error, and GET /data/region answers 404 exactly when the result is empty.
C13_Region ==
    IsRegion =>
        LET a == resp.args
            result == get_data_in_region(data_df, a.lat_min, a.lat_max,
                                         a.lon_min, a.lon_max)
            some == \E k \in DOMAIN data_df : InBox(data_df[k], a)
        IN  /\ ExactlyInOrder(data_df, result, LAMBDA r : InBox(r, a))
            /\ (a.lat_min > a.lat_max \/ a.lon_min > a.lon_max) => result = <<>>
            /\ resp.status \in {200, 404}
            /\ resp.status = 404 <=> ~some
            /\ resp.status = 404 <=> result = <<>>
            /\ resp.status = 200 => resp.body = result

\* a row on the lower bound and a row strictly inside are returned, a third
\* row beyond the longitude bound is not
C13_Witness ==
    /\ IsRegion
    /\ resp.status = 200
    /\ resp.args = [lat_min |-> 10, lat_max |-> 25, lon_min |-> 30, lon_max |-> 30]
    /\ Len(data_df) = 3
    /\ Len(resp.body) = 2
    /\ resp.body[1].Latitude = 10
    /\ resp.body[2].Latitude = 20
    /\ data_df[2].Longitude = 40

====
